---- MODULE Spec2Model ----
(***************************************************************************)
(* Model of security-tests/penetration-tests.py: the EaglePenetrationTester *)
(* object, its eight category checks, generate_report and main.            *)
(*                                                                         *)
(* Text on which the code computes (startswith, replace, rstrip, lower,    *)
(* substring search, slicing) is a sequence of one-character strings.      *)
(* Portuguese messages are written without their accents.                  *)
(***************************************************************************)
EXTENDS Integers, Sequences, FiniteSets, TLC

\* ------------------------------------------------------------------------
\* Bounds of the model
\* ------------------------------------------------------------------------

\* The target answers every probe as its profile says, except during one
\* burst of at most MaxBurst consecutive probes of the run, each of which may
\* have any outcome at all.
MaxBurst == 1

\* ------------------------------------------------------------------------
\* Text operations of the Python runtime
\* ------------------------------------------------------------------------

Min(a, b) == IF a < b THEN a ELSE b

\* s[:n]
Take(s, n) == SubSeq(s, 1, Min(n, Len(s)))

\* s.startswith(p)
StartsWith(s, p) == Len(p) <= Len(s) /\ SubSeq(s, 1, Len(p)) = p

\* p in s
Contains(s, p) ==
  \E k \in 0..(Len(s) - Len(p)) : SubSeq(s, k + 1, k + Len(p)) = p

UpperCase == <<"A", "B", "C", "D", "E", "F", "G", "H", "I", "J", "K", "L", "M",
               "N", "O", "P", "Q", "R", "S", "T", "U", "V", "W", "X", "Y", "Z">>
LowerCase == <<"a", "b", "c", "d", "e", "f", "g", "h", "i", "j", "k", "l", "m",
               "n", "o", "p", "q", "r", "s", "t", "u", "v", "w", "x", "y", "z">>

LowerChar(c) ==
  IF \E k \in 1..26 : UpperCase[k] = c
  THEN LowerCase[CHOOSE k \in 1..26 : UpperCase[k] = c]
  ELSE c

\* s.lower() forgotten: the text as it came
Lower_identity(s) == s

\* s.lower()
Lower(s) == [k \in 1..Len(s) |-> LowerChar(s[k])]

\* s.rstrip('/')
RECURSIVE RStripSlash(_)
RStripSlash(s) ==
  IF Len(s) > 0 /\ s[Len(s)] = "/" THEN RStripSlash(SubSeq(s, 1, Len(s) - 1))
  ELSE s

\* s.replace(old, new), every occurrence, left to right
RECURSIVE Replace(_, _, _)
Replace(s, old, new) ==
  IF Len(s) = 0 THEN s
  ELSE IF StartsWith(s, old)
       THEN new \o Replace(SubSeq(s, Len(old) + 1, Len(s)), old, new)
       ELSE <<s[1]>> \o Replace(Tail(s), old, new)

\* the text as one string, for f-strings
RECURSIVE Str(_)
Str(s) == IF Len(s) = 0 THEN "" ELSE s[1] \o Str(Tail(s))

\* ', '.join(words)
RECURSIVE JoinComma(_)
JoinComma(words) ==
  IF Len(words) = 0 THEN ""
  ELSE IF Len(words) = 1 THEN Str(words[1])
  ELSE Str(words[1]) \o ", " \o JoinComma(Tail(words))

\* [x for x in s if P(x)], in order
RECURSIVE SelectSeqIn(_, _)
SelectSeqIn(s, body) ==
  IF Len(s) = 0 THEN <<>>
  ELSE (IF Contains(body, s[1]) THEN <<s[1]>> ELSE <<>>) \o SelectSeqIn(Tail(s), body)

https_prefix == <<"h", "t", "t", "p", "s", ":", "/", "/">>
http_prefix == <<"h", "t", "t", "p", ":", "/", "/">>

\* ------------------------------------------------------------------------
\* Fixed tables of the checks
\* ------------------------------------------------------------------------

\* the grave accent, a character the string syntax of TLA+ does not admit
Backtick == "[grave]"

malformed_tokens ==
  << <<"i", "n", "v", "a", "l", "i", "d", ".", "j", "w", "t", ".", "t", "o", "k", "e", "n">>,
     <<"B", "e", "a", "r", "e", "r", " ", "i", "n", "v", "a", "l", "i", "d">>,
     <<"e", "y", "J", "h", "b", "G", "c", "i", "O", "i", "J", "I", "U", "z", "I", "1", "N", "i", "I", "s", "I", "n", "R", "5", "c", "C", "I", "6", "I", "k", "p", "X", "V", "C", "J", "9", ".", "i", "n", "v", "a", "l", "i", "d">>,
     <<>> >>

sensitive_endpoints ==
  << "/actuator/env", "/actuator/configprops", "/actuator/beans",
     "/actuator/heapdump", "/actuator/threaddump", "/admin/users",
     "/admin/config" >>

sql_payloads ==
  << <<"'", ";", " ", "D", "R", "O", "P", " ", "T", "A", "B", "L", "E", " ", "a", "l", "e", "r", "t", "s", ";", " ", "-", "-">>,
     <<"'", " ", "O", "R", " ", "'", "1", "'", "=", "'", "1">>,
     <<"'", " ", "U", "N", "I", "O", "N", " ", "S", "E", "L", "E", "C", "T", " ", "*", " ", "F", "R", "O", "M", " ", "u", "s", "e", "r", "s", " ", "-", "-">>,
     <<"'", ";", " ", "I", "N", "S", "E", "R", "T", " ", "I", "N", "T", "O", " ", "a", "l", "e", "r", "t", "s", " ", "V", "A", "L", "U", "E", "S", " ", "(", "'", "m", "a", "l", "i", "c", "i", "o", "u", "s", "'", ")", ";", " ", "-", "-">>,
     <<"'", " ", "O", "R", " ", "1", "=", "1", " ", "-", "-">> >>

xss_payloads ==
  << <<"<", "s", "c", "r", "i", "p", "t", ">", "a", "l", "e", "r", "t", "(", "'", "x", "s", "s", "'", ")", "<", "/", "s", "c", "r", "i", "p", "t", ">">>,
     <<"j", "a", "v", "a", "s", "c", "r", "i", "p", "t", ":", "a", "l", "e", "r", "t", "(", "'", "x", "s", "s", "'", ")">>,
     <<"<", "i", "m", "g", " ", "s", "r", "c", "=", "x", " ", "o", "n", "e", "r", "r", "o", "r", "=", "a", "l", "e", "r", "t", "(", "'", "x", "s", "s", "'", ")", ">">>,
     <<"'", ";", "a", "l", "e", "r", "t", "(", "'", "x", "s", "s", "'", ")", ";", "/", "/">>,
     <<"<", "s", "v", "g", " ", "o", "n", "l", "o", "a", "d", "=", "a", "l", "e", "r", "t", "(", "'", "x", "s", "s", "'", ")", ">">> >>

cmd_payloads ==
  << <<";", " ", "l", "s", " ", "-", "l", "a">>,
     <<"|", " ", "w", "h", "o", "a", "m", "i">>,
     <<"&", "&", " ", "c", "a", "t", " ", "/", "e", "t", "c", "/", "p", "a", "s", "s", "w", "d">>,
     <<Backtick, "i", "d", Backtick>>,
     <<"$", "(", "w", "h", "o", "a", "m", "i", ")">> >>

\* the keywords of test_injection_payload's any(...)
injection_keywords ==
  << <<"e", "r", "r", "o", "r">>,
     <<"e", "x", "c", "e", "p", "t", "i", "o", "n">>,
     <<"s", "t", "a", "c", "k">> >>

\* the header table of test_security_headers, in insertion order; expected
\* is a set of accepted values, kind tells how the code compares
required_headers ==
  << [header |-> "X-Content-Type-Options", kind |-> "exact", expected |-> {"nosniff"}],
     [header |-> "X-Frame-Options", kind |-> "list", expected |-> {"DENY", "SAMEORIGIN"}],
     [header |-> "X-XSS-Protection", kind |-> "exact", expected |-> {"1; mode=block"}],
     [header |-> "Strict-Transport-Security", kind |-> "none", expected |-> {}],
     [header |-> "Content-Security-Policy", kind |-> "none", expected |-> {}] >>

\* range(50) of test_rate_limiting
RateLimitRequests == 50

info_endpoints ==
  << "/actuator/info", "/actuator/health", "/actuator/metrics",
     "/swagger-ui.html", "/api-docs", "/error", "/debug" >>

sensitive_keywords ==
  << <<"p", "a", "s", "s", "w", "o", "r", "d">>,
     <<"s", "e", "c", "r", "e", "t">>,
     <<"k", "e", "y">>,
     <<"t", "o", "k", "e", "n">>,
     <<"c", "r", "e", "d", "e", "n", "t", "i", "a", "l">>,
     <<"d", "a", "t", "a", "b", "a", "s", "e">>,
     <<"c", "o", "n", "n", "e", "c", "t", "i", "o", "n">>,
     <<"j", "d", "b", "c">>,
     <<"u", "s", "e", "r", "n", "a", "m", "e">>,
     <<"s", "t", "a", "c", "k", "t", "r", "a", "c", "e">>,
     <<"e", "x", "c", "e", "p", "t", "i", "o", "n">>,
     <<"e", "r", "r", "o", "r">> >>

malicious_origins == << "http://evil.com", "https://attacker.com", "null", "*" >>

redirect_statuses == {301, 302, 307, 308}

\* the order of the calls of run_all_tests
run_all_tests_order ==
  << "test_authentication", "test_authorization", "test_injection_attacks",
     "test_security_headers", "test_rate_limiting",
     "test_information_disclosure", "test_cors_configuration",
     "test_ssl_configuration" >>

\* ------------------------------------------------------------------------
\* The target service: what a probe can come back with
\* ------------------------------------------------------------------------

None == "None"

\* requests raised (connection refused, timeout, invalid response, ...)
Err == [kind |-> "exception"]

NoRequest == [method |-> "none"]
NoOutcome == [kind |-> "none"]

NoHeaders == [n \in {} |-> ""]

Response(status_code, text, headers) ==
  [kind |-> "response", status_code |-> status_code, text |-> text,
   headers |-> headers]

BodyOk == <<"o", "k">>
BodyError == <<"I", "n", "t", "e", "r", "n", "a", "l", " ", "E", "r", "r", "o", "r">>
BodyStack == <<"S", "T", "A", "C", "K">>
BodyException == <<"N", "u", "l", "l", "P", "o", "i", "n", "t", "e", "r", "E", "x", "c", "e", "p", "t", "i", "o", "n">>
BodyJdbc == <<"j", "d", "b", "c", ":", "h", "2", " ", "u", "s", "e", "r", "n", "a", "m", "e", "=", "s", "a">>
Bodies == {BodyOk, BodyError, BodyStack, BodyException, BodyJdbc}

LocHttps == <<"h", "t", "t", "p", "s", ":", "/", "/", "e", "a", "g", "l", "e", ".", "e", "x", "a", "m", "p", "l", "e", "/">>
LocHttp == <<"h", "t", "t", "p", ":", "/", "/", "e", "a", "g", "l", "e", ".", "e", "x", "a", "m", "p", "l", "e", "/", "l", "o", "g", "i", "n">>

Absent == "<absent>"

\* the values the target may give each security header
HeaderValues(header) ==
  CASE header = "X-Content-Type-Options" -> {Absent, "nosniff", "sniff"}
    [] header = "X-Frame-Options" -> {Absent, "DENY", "SAMEORIGIN", "ALLOWALL"}
    [] header = "X-XSS-Protection" -> {Absent, "1; mode=block", "0"}
    [] header = "Strict-Transport-Security" -> {Absent, "max-age=31536000"}
    [] header = "Content-Security-Policy" -> {Absent, "default-src 'self'"}

\* the header mapping that carries v[k] for the k-th required header, and
\* does not carry the header at all when v[k] is Absent
MkHeaders(v) ==
  LET present == {k \in 1..Len(required_headers) : v[k] # Absent}
  IN  [n \in {required_headers[k].header : k \in present} |->
         v[CHOOSE k \in present : required_headers[k].header = n]]

\* every choice of a value, or of absence, for each of the required headers
HeaderVectors ==
  {<<a, b, c, d, e>> :
     a \in HeaderValues("X-Content-Type-Options"),
     b \in HeaderValues("X-Frame-Options"),
     c \in HeaderValues("X-XSS-Protection"),
     d \in HeaderValues("Strict-Transport-Security"),
     e \in HeaderValues("Content-Security-Policy")}

AllHeadersSet ==
  <<"nosniff", "DENY", "1; mode=block", "max-age=31536000", "default-src 'self'">>
NoHeaderSet == <<Absent, Absent, Absent, Absent, Absent>>

\* the header mappings of the target: all five headers as they should be, or
\* none of them, or one of these two with a single header changed
SecurityHeaderMaps ==
  {MkHeaders(v) :
     v \in {w \in HeaderVectors :
              \E base \in {AllHeadersSet, NoHeaderSet} :
                Cardinality({k \in 1..5 : w[k] # base[k]}) <= 1}}

AllowOrigin(v) == [n \in {"Access-Control-Allow-Origin"} |-> v]
Location(v) == [n \in {"Location"} |-> v]

StatusOnly(S) == {Response(s, BodyOk, NoHeaders) : s \in S}

\* every outcome the probes of a category can have
Outcomes(category) ==
  {Err} \cup
  CASE category = "test_authentication" -> StatusOnly({200, 401, 403, 500})
    [] category = "test_authorization" ->
         StatusOnly({200, 204, 302, 401, 403, 404, 500})
    [] category = "test_injection_attacks" ->
         {Response(200, b, NoHeaders) : b \in Bodies} \cup
         {Response(s, b, NoHeaders) : s \in {400, 422, 500}, b \in {BodyOk, BodyError}}
    [] category = "test_security_headers" ->
         {Response(200, BodyOk, h) : h \in SecurityHeaderMaps}
    [] category = "test_rate_limiting" -> StatusOnly({200, 429, 503})
    [] category = "test_information_disclosure" ->
         {Response(200, b, NoHeaders) : b \in Bodies} \cup StatusOnly({404, 500})
    [] category = "test_cors_configuration" ->
         StatusOnly({204, 403}) \cup
         {Response(204, BodyOk, AllowOrigin(v)) :
            v \in {"*", "null", "http://evil.com", "https://attacker.com",
                   "https://app.eagle.example"}}
    [] category = "test_ssl_configuration" ->
         StatusOnly({200, 301, 308}) \cup
         {Response(s, BodyOk, Location(l)) :
            s \in {200, 301, 302, 307, 308}, l \in {LocHttps, LocHttp}}

Profiles == {"hardened", "open", "down"}

\* what a target of the given profile answers to the probes of a category
Nominal(prof, category) ==
  CASE prof = "down" -> Err
    [] prof = "open" ->
         IF category = "test_cors_configuration"
         THEN Response(204, BodyOk, AllowOrigin("*"))
         ELSE Response(200, BodyOk, NoHeaders)
    [] prof = "hardened" ->
         CASE category = "test_authentication" -> Response(401, BodyOk, NoHeaders)
           [] category = "test_authorization" -> Response(403, BodyOk, NoHeaders)
           [] category = "test_injection_attacks" -> Response(400, BodyError, NoHeaders)
           [] category = "test_security_headers" ->
                Response(200, BodyOk, MkHeaders(AllHeadersSet))
           [] category = "test_rate_limiting" -> Response(429, BodyOk, NoHeaders)
           [] category = "test_information_disclosure" -> Response(404, BodyOk, NoHeaders)
           [] category = "test_cors_configuration" -> Response(403, BodyOk, NoHeaders)
           [] category = "test_ssl_configuration" ->
                Response(301, BodyOk, Location(LocHttps))

\* the command lines of main: --target and --token
TargetHttp == <<"h", "t", "t", "p", ":", "/", "/", "l", "o", "c", "a", "l", "h", "o", "s", "t", ":", "8", "0", "8", "0">>
TargetHttps == <<"h", "t", "t", "p", "s", ":", "/", "/", "e", "a", "g", "l", "e", ".", "e", "x", "a", "m", "p", "l", "e", "/">>

Scenarios ==
  { [target |-> TargetHttp, token |-> None, profile |-> "open"],
    [target |-> TargetHttps, token |-> "jwt", profile |-> "hardened"],
    [target |-> TargetHttps, token |-> "jwt", profile |-> "down"] }

\* ------------------------------------------------------------------------
\* State
\* ------------------------------------------------------------------------

VARIABLES
  pc,              \* the method main is in: "main", a test_* method,
                   \* "generate_report", "exit", "done"
  step,            \* the position inside that method (loop index)
  base_url,        \* self.base_url
  session_headers, \* self.session.headers
  results,         \* self.results
  responses,       \* the list responses of test_rate_limiting
  expired_token,   \* the local expired_token of test_authentication
  report_file,     \* <<the list generate_report dumped>>, <<>> before
  success,         \* <<the value run_all_tests returned>>, <<>> before
  exit_code,       \* <<the argument of sys.exit>>, <<>> before
  summary,         \* <<the counts generate_report printed>>, <<>> before
  profile,         \* the target's profile
  faulty,          \* the burst has begun
  budget,          \* probes the burst may still cover
  last_request,    \* the request most recently sent
  last_outcome,    \* its outcome: a response or Err
  sent,            \* requests sent so far, per category method
  raised,          \* the category methods in which a request raised
  calls,           \* the category methods entered so far, in order
  marks            \* len(self.results) on return of each category method

vars == <<pc, step, base_url, session_headers, results, responses,
          expired_token, report_file, success, exit_code, summary, profile,
          faulty, budget,
          last_request, last_outcome, sent, raised, calls, marks>>

Categories == {run_all_tests_order[k] : k \in 1..Len(run_all_tests_order)}

\* EaglePenetrationTester.__init__
TesterInit(target, token) ==
  /\ base_url = RStripSlash(target)
  /\ session_headers =
       IF token # None
       THEN [n \in {"User-Agent", "Content-Type", "Authorization"} |->
               CASE n = "User-Agent" -> "Eagle-Security-Tester/1.0"
                 [] n = "Content-Type" -> "application/json"
                 [] n = "Authorization" -> "Bearer " \o token]
       ELSE [n \in {"User-Agent", "Content-Type"} |->
               CASE n = "User-Agent" -> "Eagle-Security-Tester/1.0"
                 [] n = "Content-Type" -> "application/json"]
  /\ results = <<>>

Init ==
  \E sc \in Scenarios :
    /\ TesterInit(sc.target, sc.token)
    /\ profile = sc.profile
    /\ faulty = FALSE
    /\ budget = MaxBurst
    /\ pc = "main"
    /\ step = 1
    /\ responses = <<>>
    /\ expired_token = None
    /\ report_file = <<>>
    /\ success = <<>>
    /\ exit_code = <<>>
    /\ summary = <<>>
    /\ last_request = NoRequest
    /\ last_outcome = NoOutcome
    /\ sent = [c \in Categories |-> 0]
    /\ raised = {}
    /\ calls = <<>>
    /\ marks = <<>>

\* ------------------------------------------------------------------------
\* Helpers shared by the checks
\* ------------------------------------------------------------------------

\* log_result inserting the new record at the head of the list
log_result_prepend(rs, test_name, status, details, severity) ==
  <<[timestamp |-> Len(rs) + 1, test |-> test_name, status |-> status,
     details |-> details, severity |-> severity]>> \o rs

\* log_result: the list with the new record appended.  The timestamp is the
\* wall clock, modelled as a logical tick.
log_result(rs, test_name, status, details, severity) ==
  Append(rs, [timestamp |-> Len(rs) + 1, test |-> test_name, status |-> status,
              details |-> details, severity |-> severity])

\* str(e) of the exception requests raised
ExceptionText == "Connection refused"

\* the outcomes the target may give the next probe of a category
Choices(category) ==
  {Nominal(profile, category)} \cup
  (IF budget > 0 THEN Outcomes(category) ELSE {})

\* the burst begins with the first deviating outcome and covers the probes
\* that follow it until the budget is used up
Burst(deviates) ==
  IF faulty \/ deviates
  THEN /\ faulty' = TRUE
       /\ budget' = IF budget > 0 THEN budget - 1 ELSE 0
  ELSE UNCHANGED <<faulty, budget>>

\* requests.get / session.get / session.post / requests.options: one request
\* goes out and its outcome o comes back
Send(category, request, o) ==
  /\ o \in Choices(category)
  /\ Burst(o # Nominal(profile, category))
  /\ last_request' = request
  /\ last_outcome' = o
  /\ sent' = [sent EXCEPT ![category] = @ + 1]
  /\ raised' = IF o.kind = "exception" THEN raised \cup {category} ELSE raised

NoSend == UNCHANGED <<faulty, budget, last_request, last_outcome, sent, raised>>

\* f"{self.base_url}{path}"
Url(path) == <<base_url, path>>

Request(via, method, url, headers, allow_redirects) ==
  [via |-> via, method |-> method, url |-> url, headers |-> headers,
   allow_redirects |-> allow_redirects]

IndexOf(method) ==
  CHOOSE k \in 1..Len(run_all_tests_order) : run_all_tests_order[k] = method

\* run_all_tests calls its k-th method, or generate_report after the last
Call(k) ==
  /\ step' = 1
  /\ IF k <= Len(run_all_tests_order)
     THEN /\ pc' = run_all_tests_order[k]
          /\ calls' = Append(calls, run_all_tests_order[k])
     ELSE /\ pc' = "generate_report"
          /\ calls' = calls

\* a category method returns to run_all_tests, which makes its next call
Return(method) ==
  /\ marks' = Append(marks, Len(results'))
  /\ Call(IndexOf(method) + 1)

\* the method goes on with its next step
Continue == /\ pc' = pc
            /\ step' = step + 1
            /\ UNCHANGED <<calls, marks>>

\* main: parse the arguments, build the tester, call run_all_tests
main ==
  /\ pc = "main"
  /\ Call(1)
  /\ NoSend
  /\ UNCHANGED <<base_url, session_headers, results, responses, expired_token,
                 report_file, success, exit_code, summary, profile, marks>>

\* ------------------------------------------------------------------------
\* test_authentication
\* ------------------------------------------------------------------------

StatusUrl == Url("/api/v1/alerts/status")

\* Teste 1: acesso sem token
auth_without_token ==
  /\ pc = "test_authentication"
  /\ step = 1
  /\ \E o \in Choices("test_authentication") :
       /\ Send("test_authentication",
               Request("requests", "GET", StatusUrl, NoHeaders, TRUE), o)
       /\ results' =
            IF o.kind = "exception"
            THEN log_result(results, "Auth Without Token", "ERROR",
                            ExceptionText, "WARN")
            ELSE IF o.status_code = 401
            THEN log_result(results, "Auth Without Token", "PASS",
                            "Endpoint protegido corretamente", "PASS")
            ELSE log_result(results, "Auth Without Token", "FAIL",
                            "Endpoint nao protegido (status: "
                              \o ToString(o.status_code) \o ")", "FAIL")
  /\ Continue
  /\ UNCHANGED <<base_url, session_headers, responses, expired_token,
                 report_file, success, exit_code, summary, profile>>

Bearer(token) == [n \in {"Authorization"} |-> "Bearer " \o token]

\* Teste 2: token malformado, one token of the list per step
auth_malformed_token ==
  /\ pc = "test_authentication"
  /\ step \in 2..(1 + Len(malformed_tokens))
  /\ LET token == malformed_tokens[step - 1]
         name == "Malformed Token (" \o Str(Take(token, 20)) \o "...)"
     IN  \E o \in Choices("test_authentication") :
           /\ Send("test_authentication",
                   Request("requests", "GET", StatusUrl, Bearer(Str(token)), TRUE), o)
           /\ results' =
                IF o.kind = "exception"
                THEN log_result(results, "Malformed Token", "ERROR",
                                ExceptionText, "WARN")
                ELSE IF o.status_code = 401
                THEN log_result(results, name, "PASS",
                                "Token invalido rejeitado", "PASS")
                ELSE log_result(results, name, "FAIL",
                                "Token invalido aceito (status: "
                                  \o ToString(o.status_code) \o ")", "FAIL")
  /\ Continue
  /\ UNCHANGED <<base_url, session_headers, responses, expired_token,
                 report_file, success, exit_code, summary, profile>>

\* generate_expired_token: the token, or None when building it raised
generate_expired_token(built) ==
  IF built THEN "eyJhbGciOiAiSFMyNTYiLCAidHlwIjogIkpXVCJ9.payload_b64.fake_signature"
  ELSE None

\* the expired-token step taking a 403 for a rejection as well
expired_token_result_lenient(rs, o) ==
  IF o.kind = "exception"
  THEN log_result(rs, "Expired Token", "WARN",
                  "Nao foi possivel testar: " \o ExceptionText, "WARN")
  ELSE IF o.status_code \in {401, 403}
  THEN log_result(rs, "Expired Token", "PASS", "Token expirado rejeitado", "PASS")
  ELSE log_result(rs, "Expired Token", "FAIL",
                  "Token expirado aceito (status: "
                    \o ToString(o.status_code) \o ")", "FAIL")

\* the record of the expired-token step once the outcome o of its request is
\* known
expired_token_result(rs, o) ==
  IF o.kind = "exception"
  THEN log_result(rs, "Expired Token", "WARN",
                  "Nao foi possivel testar: " \o ExceptionText, "WARN")
  ELSE IF o.status_code = 401
  THEN log_result(rs, "Expired Token", "PASS", "Token expirado rejeitado", "PASS")
  ELSE log_result(rs, "Expired Token", "FAIL",
                  "Token expirado aceito (status: "
                    \o ToString(o.status_code) \o ")", "FAIL")

\* Teste 3: token expirado (se possivel gerar)
auth_expired_token ==
  /\ pc = "test_authentication"
  /\ step = 2 + Len(malformed_tokens)
  /\ \E built \in (IF budget > 0 THEN BOOLEAN ELSE {TRUE}) :
       LET token == generate_expired_token(built)
       IN  /\ expired_token' = token
           /\ IF token # None
              THEN \E o \in Choices("test_authentication") :
                     /\ Send("test_authentication",
                             Request("requests", "GET", StatusUrl, Bearer(token), TRUE), o)
                     /\ results' = expired_token_result(results, o)
              ELSE /\ Burst(TRUE)
                   /\ results' = results
                   /\ UNCHANGED <<last_request, last_outcome, sent, raised>>
  /\ Return("test_authentication")
  /\ UNCHANGED <<base_url, session_headers, responses, report_file, success,
                 exit_code, summary, profile>>

test_authentication ==
  \/ auth_without_token
  \/ auth_malformed_token
  \/ auth_expired_token

\* ------------------------------------------------------------------------
\* test_authorization
\* ------------------------------------------------------------------------

\* the authorization loop failing an endpoint on status 200 alone
authorization_result_only200(rs, endpoint, o) ==
  LET name == "Sensitive Endpoint " \o endpoint
  IN  IF o.kind = "exception"
      THEN log_result(rs, name, "ERROR", ExceptionText, "WARN")
      ELSE IF o.status_code # 200
      THEN log_result(rs, name, "PASS",
                      "Endpoint protegido (status: "
                        \o ToString(o.status_code) \o ")", "PASS")
      ELSE log_result(rs, name, "FAIL",
                      "Endpoint exposto (status: "
                        \o ToString(o.status_code) \o ")", "FAIL")

\* the authorization loop recording a caught exception with severity FAIL
authorization_result_error_fail(rs, endpoint, o) ==
  LET name == "Sensitive Endpoint " \o endpoint
  IN  IF o.kind = "exception"
      THEN log_result(rs, name, "ERROR", ExceptionText, "FAIL")
      ELSE IF o.status_code \in {401, 403, 404}
      THEN log_result(rs, name, "PASS",
                      "Endpoint protegido (status: "
                        \o ToString(o.status_code) \o ")", "PASS")
      ELSE log_result(rs, name, "FAIL",
                      "Endpoint exposto (status: "
                        \o ToString(o.status_code) \o ")", "FAIL")

\* the body of the loop over sensitive_endpoints once the outcome o of the
\* request is known
authorization_result(rs, endpoint, o) ==
  LET name == "Sensitive Endpoint " \o endpoint
  IN  IF o.kind = "exception"
      THEN log_result(rs, name, "ERROR", ExceptionText, "WARN")
      ELSE IF o.status_code \in {401, 403, 404}
      THEN log_result(rs, name, "PASS",
                      "Endpoint protegido (status: "
                        \o ToString(o.status_code) \o ")", "PASS")
      ELSE log_result(rs, name, "FAIL",
                      "Endpoint exposto (status: "
                        \o ToString(o.status_code) \o ")", "FAIL")

\* one sensitive endpoint of the list per step
test_authorization ==
  /\ pc = "test_authorization"
  /\ step \in 1..Len(sensitive_endpoints)
  /\ LET endpoint == sensitive_endpoints[step]
     IN  \E o \in Choices("test_authorization") :
           /\ Send("test_authorization",
                   Request("session", "GET", Url(endpoint), session_headers, TRUE), o)
           /\ results' = authorization_result(results, endpoint, o)
  /\ IF step = Len(sensitive_endpoints)
     THEN Return("test_authorization")
     ELSE Continue
  /\ UNCHANGED <<base_url, session_headers, responses, expired_token,
                 report_file, success, exit_code, summary, profile>>

\* ------------------------------------------------------------------------
\* test_injection_attacks
\* ------------------------------------------------------------------------

Tagged(attack_type, payloads) ==
  [k \in 1..Len(payloads) |-> [attack_type |-> attack_type, payload |-> payloads[k]]]

\* the calls of test_injection_payload, in the order of the three loops
injection_calls ==
  Tagged("SQL Injection", sql_payloads) \o Tagged("XSS", xss_payloads)
    \o Tagged("Command Injection", cmd_payloads)

\* any(keyword in response_text for keyword in [...])
AnyKeyword(response_text) ==
  \E k \in 1..Len(injection_keywords) : Contains(response_text, injection_keywords[k])

\* test_injection_payload without its last else: no record for a status
\* that is none of 400, 422, 200
test_injection_payload_silent(rs, attack_type, payload, o) ==
  LET name == attack_type \o " (" \o Str(Take(payload, 30)) \o "...)"
  IN  IF o.kind = "exception"
      THEN log_result(rs, attack_type \o " Payload Test", "ERROR", ExceptionText, "WARN")
      ELSE IF o.status_code \in {400, 422}
      THEN log_result(rs, name, "PASS", "Payload rejeitado", "PASS")
      ELSE IF o.status_code = 200
      THEN IF \E k \in 1..Len(injection_keywords) :
                Contains(Lower(o.text), injection_keywords[k])
           THEN log_result(rs, name, "WARN", "Possivel vulnerabilidade detectada", "WARN")
           ELSE log_result(rs, name, "FAIL", "Payload aceito sem validacao", "FAIL")
      ELSE rs

\* the body of test_injection_payload once the outcome o of its request is known
test_injection_payload(rs, attack_type, payload, o) ==
  LET name == attack_type \o " (" \o Str(Take(payload, 30)) \o "...)"
  IN  IF o.kind = "exception"
      THEN log_result(rs, attack_type \o " Payload Test", "ERROR", ExceptionText, "WARN")
      ELSE IF o.status_code \in {400, 422}
      THEN log_result(rs, name, "PASS", "Payload rejeitado", "PASS")
      ELSE IF o.status_code = 200
      THEN IF AnyKeyword(Lower(o.text))
           THEN log_result(rs, name, "WARN", "Possivel vulnerabilidade detectada", "WARN")
           ELSE log_result(rs, name, "FAIL", "Payload aceito sem validacao", "FAIL")
      ELSE log_result(rs, name, "INFO",
                      "Status inesperado: " \o ToString(o.status_code), "INFO")

InjectionData(field, payload) ==
  [f \in {field, "scopeStartDate", "scopeEndDate"} |->
     CASE f = field -> Str(payload)
       [] f = "scopeStartDate" -> "2024-01-01"
       [] f = "scopeEndDate" -> "2024-01-31"]

\* one payload per step
test_injection_attacks ==
  /\ pc = "test_injection_attacks"
  /\ step \in 1..Len(injection_calls)
  /\ LET call == injection_calls[step]
     IN  \E o \in Choices("test_injection_attacks") :
           /\ Send("test_injection_attacks",
                   Request("session", "POST", Url("/api/v1/alerts/create"),
                           session_headers, TRUE)
                     @@ [json |-> InjectionData("customerDocument", call.payload)],
                   o)
           /\ results' = test_injection_payload(results, call.attack_type,
                                                call.payload, o)
  /\ IF step = Len(injection_calls)
     THEN Return("test_injection_attacks")
     ELSE Continue
  /\ UNCHANGED <<base_url, session_headers, responses, expired_token,
                 report_file, success, exit_code, summary, profile>>

\* ------------------------------------------------------------------------
\* test_security_headers
\* ------------------------------------------------------------------------

\* the body of the loop over required_headers, for one entry of the table
check_header(rs, entry, headers) ==
  LET name == "Security Header " \o entry.header
  IN  IF entry.header \in DOMAIN headers
      THEN LET actual_value == headers[entry.header]
           IN  IF entry.kind = "none"
               THEN log_result(rs, name, "PASS", "Presente: " \o actual_value, "PASS")
               ELSE IF entry.kind = "list"
               THEN IF actual_value \in entry.expected
                    THEN log_result(rs, name, "PASS",
                                    "Valor correto: " \o actual_value, "PASS")
                    ELSE log_result(rs, name, "WARN",
                                    "Valor inesperado: " \o actual_value, "WARN")
               ELSE IF {actual_value} = entry.expected
               THEN log_result(rs, name, "PASS",
                               "Valor correto: " \o actual_value, "PASS")
               ELSE log_result(rs, name, "WARN",
                               "Valor incorreto: " \o actual_value, "WARN")
      ELSE log_result(rs, name, "FAIL", "Header ausente", "FAIL")

\* the loop over the first n entries of required_headers
RECURSIVE check_headers(_, _, _)
check_headers(rs, n, headers) ==
  IF n = 0 THEN rs
  ELSE check_header(check_headers(rs, n - 1, headers), required_headers[n], headers)

test_security_headers ==
  /\ pc = "test_security_headers"
  /\ \E o \in Choices("test_security_headers") :
       /\ Send("test_security_headers",
               Request("session", "GET", StatusUrl, session_headers, TRUE), o)
       /\ results' =
            IF o.kind = "exception"
            THEN log_result(results, "Security Headers Test", "ERROR",
                            ExceptionText, "WARN")
            ELSE check_headers(results, Len(required_headers), o.headers)
  /\ Return("test_security_headers")
  /\ UNCHANGED <<base_url, session_headers, responses, expired_token,
                 report_file, success, exit_code, summary, profile>>

\* ------------------------------------------------------------------------
\* test_rate_limiting
\* ------------------------------------------------------------------------

\* one iteration of the loop: the request, responses.append, the sleep
rate_limit_request ==
  /\ pc = "test_rate_limiting"
  /\ step \in 1..RateLimitRequests
  /\ \E o \in Choices("test_rate_limiting") :
       /\ Send("test_rate_limiting",
               Request("session", "GET", StatusUrl, session_headers, TRUE), o)
       /\ IF o.kind = "exception"
          THEN /\ results' = log_result(results, "Rate Limiting Test", "ERROR",
                                        ExceptionText, "WARN")
               /\ responses' = <<>>
               /\ Return("test_rate_limiting")
          ELSE /\ results' = results
               /\ responses' = Append(responses, o.status_code)
               /\ Continue
  /\ UNCHANGED <<base_url, session_headers, expired_token, report_file,
                 success, exit_code, summary, profile>>

\* the rate-limiting verdict recording the absence of a 429 as a failure
rate_limit_result_strict(rs, statuses) ==
  LET rate_limited == \E k \in 1..Len(statuses) : statuses[k] = 429
  IN  IF rate_limited
      THEN log_result(rs, "Rate Limiting", "PASS", "Rate limiting ativo", "PASS")
      ELSE log_result(rs, "Rate Limiting", "FAIL",
                      "Rate limiting nao detectado", "FAIL")

\* the record after the loop, from the statuses collected
rate_limit_result(rs, statuses) ==
  LET rate_limited == \E k \in 1..Len(statuses) : statuses[k] = 429
  IN  IF rate_limited
      THEN log_result(rs, "Rate Limiting", "PASS", "Rate limiting ativo", "PASS")
      ELSE log_result(rs, "Rate Limiting", "WARN",
                      "Rate limiting nao detectado", "WARN")

\* after the loop: rate_limited = any(status == 429 for status in responses)
rate_limit_verdict ==
  /\ pc = "test_rate_limiting"
  /\ step = RateLimitRequests + 1
  /\ results' = rate_limit_result(results, responses)
  /\ responses' = <<>>
  /\ Return("test_rate_limiting")
  /\ NoSend
  /\ UNCHANGED <<base_url, session_headers, expired_token, report_file,
                 success, exit_code, summary, profile>>

test_rate_limiting ==
  \/ rate_limit_request
  \/ rate_limit_verdict

\* ------------------------------------------------------------------------
\* test_information_disclosure
\* ------------------------------------------------------------------------

\* one endpoint of info_endpoints per step
test_information_disclosure ==
  /\ pc = "test_information_disclosure"
  /\ step \in 1..Len(info_endpoints)
  /\ LET endpoint == info_endpoints[step]
         name == "Info Disclosure " \o endpoint
     IN  \E o \in Choices("test_information_disclosure") :
           /\ Send("test_information_disclosure",
                   Request("requests", "GET", Url(endpoint), NoHeaders, TRUE), o)
           /\ results' =
                IF o.kind = "exception"
                THEN log_result(results, name, "ERROR", ExceptionText, "WARN")
                ELSE IF o.status_code = 200
                THEN LET content == Lower(o.text)
                         found_sensitive == SelectSeqIn(sensitive_keywords, content)
                     IN  IF Len(found_sensitive) > 0
                         THEN log_result(results, name, "WARN",
                                         "Possivel vazamento: "
                                           \o JoinComma(found_sensitive), "WARN")
                         ELSE log_result(results, name, "PASS",
                                         "Nenhuma informacao sensivel detectada",
                                         "PASS")
                ELSE log_result(results, name, "PASS",
                                "Endpoint nao acessivel (status: "
                                  \o ToString(o.status_code) \o ")", "PASS")
  /\ IF step = Len(info_endpoints)
     THEN Return("test_information_disclosure")
     ELSE Continue
  /\ UNCHANGED <<base_url, session_headers, responses, expired_token,
                 report_file, success, exit_code, summary, profile>>

\* ------------------------------------------------------------------------
\* test_cors_configuration
\* ------------------------------------------------------------------------

\* response.headers.get(name, default)
HeaderGet(headers, name, default) ==
  IF name \in DOMAIN headers THEN headers[name] ELSE default

\* test_cors_configuration without its except clause: the exception leaves
\* run_all_tests and main, and the interpreter stops with a traceback
cors_except_uncaught ==
  /\ results' = results
  /\ pc' = "crashed"
  /\ UNCHANGED <<step, calls, marks>>

\* the except clause of test_cors_configuration: the record, and the method
\* returns to run_all_tests
cors_except ==
  /\ results' = log_result(results, "CORS Configuration Test", "ERROR",
                           ExceptionText, "WARN")
  /\ Return("test_cors_configuration")

\* one origin of malicious_origins per step; the try block encloses the
\* whole loop, so an exception ends the method
test_cors_configuration ==
  /\ pc = "test_cors_configuration"
  /\ step \in 1..Len(malicious_origins)
  /\ LET origin == malicious_origins[step]
         headers == [n \in {"Origin", "Access-Control-Request-Method",
                            "Access-Control-Request-Headers"} |->
                       CASE n = "Origin" -> origin
                         [] n = "Access-Control-Request-Method" -> "POST"
                         [] n = "Access-Control-Request-Headers" ->
                              "Authorization,Content-Type"]
     IN  \E o \in Choices("test_cors_configuration") :
           /\ Send("test_cors_configuration",
                   Request("requests", "OPTIONS", Url("/api/v1/alerts/create"),
                           headers, TRUE), o)
           /\ IF o.kind = "exception"
              THEN cors_except
              ELSE /\ LET cors_origin ==
                            HeaderGet(o.headers, "Access-Control-Allow-Origin", None)
                      IN  results' =
                            IF cors_origin = origin \/ cors_origin = "*"
                            THEN log_result(results, "CORS Origin " \o origin, "FAIL",
                                            "Origem maliciosa permitida: " \o cors_origin,
                                            "FAIL")
                            ELSE log_result(results, "CORS Origin " \o origin, "PASS",
                                            "Origem maliciosa rejeitada", "PASS")
                   /\ IF step = Len(malicious_origins)
                      THEN Return("test_cors_configuration")
                      ELSE Continue
  /\ UNCHANGED <<base_url, session_headers, responses, expired_token,
                 report_file, success, exit_code, summary, profile>>

\* ------------------------------------------------------------------------
\* test_ssl_configuration
\* ------------------------------------------------------------------------

\* the redirect test passing any redirect, wherever it leads
ssl_result_any_redirect(rs, o) ==
  IF o.kind = "exception"
  THEN log_result(rs, "SSL Configuration Test", "ERROR", ExceptionText, "WARN")
  ELSE IF o.status_code \in redirect_statuses
  THEN log_result(rs, "HTTP to HTTPS Redirect", "PASS",
                  "Redirecionamento configurado", "PASS")
  ELSE log_result(rs, "HTTP to HTTPS Redirect", "FAIL",
                  "Redirecionamento nao configurado", "FAIL")

\* the record of the redirect test once the outcome o of its request is known
ssl_result(rs, o) ==
  IF o.kind = "exception"
  THEN log_result(rs, "SSL Configuration Test", "ERROR", ExceptionText, "WARN")
  ELSE IF o.status_code \in redirect_statuses
  THEN LET location == HeaderGet(o.headers, "Location", <<>>)
       IN  IF StartsWith(location, https_prefix)
           THEN log_result(rs, "HTTP to HTTPS Redirect", "PASS",
                           "Redirecionamento configurado", "PASS")
           ELSE log_result(rs, "HTTP to HTTPS Redirect", "FAIL",
                           "Redirecionamento incorreto", "FAIL")
  ELSE log_result(rs, "HTTP to HTTPS Redirect", "FAIL",
                  "Redirecionamento nao configurado", "FAIL")

test_ssl_configuration ==
  /\ pc = "test_ssl_configuration"
  /\ IF ~StartsWith(base_url, https_prefix)
     THEN /\ results' = log_result(results, "SSL Configuration", "WARN",
                                   "Aplicacao nao esta usando HTTPS", "WARN")
          /\ NoSend
     ELSE LET http_url == Replace(base_url, https_prefix, http_prefix)
          IN  \E o \in Choices("test_ssl_configuration") :
                /\ Send("test_ssl_configuration",
                        Request("requests", "GET", <<http_url, "">>, NoHeaders, FALSE),
                        o)
                /\ results' = ssl_result(results, o)
  /\ Return("test_ssl_configuration")
  /\ UNCHANGED <<base_url, session_headers, responses, expired_token,
                 report_file, success, exit_code, summary, profile>>

\* ------------------------------------------------------------------------
\* generate_report, and the end of run_all_tests and main
\* ------------------------------------------------------------------------

\* a count that takes ERROR records for records of any status asked for
CountStatus_errors(rs, status) ==
  Cardinality({k \in 1..Len(rs) : rs[k].status \in {status, "ERROR"}})

\* len([r for r in self.results if r['status'] == status])
CountStatus(rs, status) ==
  Cardinality({k \in 1..Len(rs) : rs[k].status = status})

\* the counts are printed, the list is dumped to the report file, and the
\* value failed == 0 goes back through run_all_tests to main
generate_report ==
  /\ pc = "generate_report"
  /\ LET total_tests == Len(results)
         passed == CountStatus(results, "PASS")
         failed == CountStatus(results, "FAIL")
         warnings == CountStatus(results, "WARN")
         errors == CountStatus(results, "ERROR")
     IN  /\ summary' = <<[total_tests |-> total_tests, passed |-> passed,
                          failed |-> failed, warnings |-> warnings,
                          errors |-> errors]>>
         /\ success' = <<failed = 0>>
  /\ report_file' = <<results>>
  /\ pc' = "exit"
  /\ NoSend
  /\ UNCHANGED <<step, base_url, session_headers, results, responses,
                 expired_token, exit_code, profile, calls, marks>>

\* sys.exit(0 if success else 1)
exit ==
  /\ pc = "exit"
  /\ exit_code' = <<IF success[1] THEN 0 ELSE 1>>
  /\ pc' = "done"
  /\ NoSend
  /\ UNCHANGED <<step, base_url, session_headers, results, responses,
                 expired_token, report_file, success, summary, profile,
                 calls, marks>>

Next ==
  \/ main
  \/ test_authentication
  \/ test_authorization
  \/ test_injection_attacks
  \/ test_security_headers
  \/ test_rate_limiting
  \/ test_information_disclosure
  \/ test_cors_configuration
  \/ test_ssl_configuration
  \/ generate_report
  \/ exit

Spec == Init /\ [][Next]_vars

\* the interpreter runs the program on: a step that can be taken is taken
FairSpec == Spec /\ WF_vars(Next)

\* ------------------------------------------------------------------------
\* Properties
\* ------------------------------------------------------------------------

IsPrefix(a, b) == Len(a) <= Len(b) /\ SubSeq(b, 1, Len(a)) = a

Last(rs) == rs[Len(rs)]

HasStatus(rs, status) == \E k \in 1..Len(rs) : rs[k].status = status

\* C1: whatever the probes come back with, a response or a transport error,
\* run_all_tests calls the eight category checks in the order authentication,
\* authorization, injection, headers, rate limiting, information disclosure,
\* CORS, SSL, and the run reaches generate_report.
C1_AllCategoriesThenReport ==
  /\ [](pc \in {"generate_report", "exit", "done"} =>
          /\ calls = << "test_authentication", "test_authorization",
                        "test_injection_attacks", "test_security_headers",
                        "test_rate_limiting", "test_information_disclosure",
                        "test_cors_configuration", "test_ssl_configuration" >>
          /\ Len(marks) = 8)
  /\ <>(pc = "generate_report")

\* the report is reached after a request raised in every one of the categories
C1_Witness ==
  /\ pc = "generate_report"
  /\ raised = Categories
  /\ Len(calls) = 8

\* C2: generate_report, and with it run_all_tests, returns true exactly when
\* no record has status FAIL, however many WARN, ERROR or other records there
\* are; main exits with 0 exactly when that value is true, with 1 otherwise.
C2_ReportIffNoFail ==
  /\ success # <<>> =>
       (success[1] <=> \A k \in 1..Len(results) : results[k].status # "FAIL")
  /\ exit_code # <<>> =>
       /\ exit_code[1] \in {0, 1}
       /\ exit_code[1] = 0 <=> success[1]

\* main has exited with 0 after a run that left ERROR and WARN records
C2_Witness ==
  /\ pc = "done"
  /\ exit_code = <<0>>
  /\ HasStatus(results, "ERROR")
  /\ HasStatus(results, "WARN")

\* C3: every record of the results list has its status among PASS, FAIL,
\* WARN, ERROR and its severity among PASS, FAIL, WARN, INFO.
C3_StatusAndSeverityDomains ==
  \A k \in 1..Len(results) :
    /\ results[k].status \in {"PASS", "FAIL", "WARN", "ERROR"}
    /\ results[k].severity \in {"PASS", "FAIL", "WARN", "INFO"}

C4_Expected(method) ==
  CASE method = "test_authentication" -> 6
    [] method = "test_authorization" -> 7
    [] method = "test_injection_attacks" -> 15
    [] method = "test_security_headers" -> 5
    [] method = "test_rate_limiting" -> 1
    [] method = "test_information_disclosure" -> 7
    [] method = "test_cors_configuration" -> 4
    [] method = "test_ssl_configuration" -> 1

\* C4: a category method all of whose probes received a response (none
\* raised, and the expired-token probe of the authentication check was
\* built and sent) has appended a fixed number of records, whatever the
\* responses were: authentication 6, authorization 7, injection 15, security
\* headers 5, rate limiting 1, information disclosure 7, CORS 4, SSL 1.
C4_RecordCounts ==
  \A k \in 1..Len(marks) :
    LET method == calls[k]
        appended == marks[k] - (IF k = 1 THEN 0 ELSE marks[k - 1])
        answered == /\ method \notin raised
                    /\ method = "test_authentication" => expired_token # None
    IN  answered => appended = C4_Expected(method)

\* a whole run without any exception in which the target deviated from its
\* profile
C4_Witness ==
  /\ pc = "generate_report"
  /\ raised = {}
  /\ expired_token # None
  /\ faulty
  /\ Len(results) = 46

\* C5: the results list starts empty and every step of every category method
\* and of generate_report leaves the list it found as a prefix of the list it
\* leaves: no record is removed, reordered or changed.
C5_AppendOnly ==
  /\ results = <<>>
  /\ [][IsPrefix(results, results')]_vars

\* the run is over, records were appended and the report holds them all
C5_Witness ==
  /\ pc = "done"
  /\ Len(results) > 1
  /\ report_file = <<results>>

\* the bodies of the target that carry one of the words error, exception,
\* stack, in whatever case
C6_KeywordBodies == {BodyError, BodyStack, BodyException}

\* C6: for every payload of the three lists test_injection_payload appends
\* exactly one record, classified by the response: 400 or 422 gives PASS, 200
\* with error, exception or stack in the lowercased body gives WARN, 200
\* without them gives FAIL, any other status gives INFO.
C6_InjectionClassification ==
  [][pc = "test_injection_attacks" =>
       LET o == last_outcome'
           r == Last(results')
       IN  /\ Len(results') = Len(results) + 1
           /\ IsPrefix(results, results')
           /\ o.kind = "response" =>
                /\ o.status_code \in {400, 422} => r.status = "PASS"
                /\ (o.status_code = 200 /\ o.text \in C6_KeywordBodies) =>
                     r.status = "WARN"
                /\ (o.status_code = 200 /\ o.text \notin C6_KeywordBodies) =>
                     r.status = "FAIL"
                /\ o.status_code \notin {200, 400, 422} => r.status = "INFO"]_vars

\* the last payload sent was accepted with 200 and a body that shouts STACK
C6_Witness ==
  /\ last_request.method = "POST"
  /\ last_outcome.kind = "response"
  /\ last_outcome.status_code = 200
  /\ last_outcome.text = BodyStack
  /\ Last(results).status = "WARN"

\* a step of the expired-token test: the last step of test_authentication
C7_Step == pc = "test_authentication" /\ step = 6

\* C7, as claimed: the expired-token step gives PASS when the token is
\* rejected with 401 and FAIL for any other response status; when the token
\* cannot be built the step appends a WARN record; the check goes on.
C7_ExpiredTokenAsClaimed ==
  [][C7_Step =>
       /\ pc' = "test_authorization"
       /\ IF expired_token' = None
          THEN /\ Len(results') = Len(results) + 1
               /\ Last(results').status = "WARN"
          ELSE last_outcome'.kind = "response" =>
                 /\ Len(results') = Len(results) + 1
                 /\ Last(results').status =
                      IF last_outcome'.status_code = 401 THEN "PASS" ELSE "FAIL"]_vars

\* C7, amended: the expired-token step gives PASS when the token is rejected
\* with 401 and FAIL for any other response status; when its request raises
\* it appends a WARN record; when the token cannot be built it appends no
\* record at all; in every case the check goes on.
C7_ExpiredTokenAmended ==
  [][C7_Step =>
       /\ pc' = "test_authorization"
       /\ IF expired_token' = None
          THEN results' = results /\ sent' = sent
          ELSE /\ Len(results') = Len(results) + 1
               /\ IsPrefix(results, results')
               /\ Last(results').test = "Expired Token"
               /\ Last(results').status =
                    IF last_outcome'.kind = "exception" THEN "WARN"
                    ELSE IF last_outcome'.status_code = 401 THEN "PASS"
                    ELSE "FAIL"]_vars

\* the token could not be built and the authentication check has returned
\* with the five records of its first two tests
C7_Witness ==
  /\ pc = "test_authorization"
  /\ step = 1
  /\ expired_token = None
  /\ marks = <<5>>

\* C8: the rate-limiting check sends 50 requests one after the other and,
\* these answered, appends one record, PASS when a response carried 429 and
\* WARN when none did; whatever the probes come back with, it sends no more
\* than 50 requests and appends no FAIL record.
C8_RateLimiting ==
  [][pc = "test_rate_limiting" =>
       /\ sent'["test_rate_limiting"] <= 50
       /\ Len(results') > Len(results) =>
            /\ Last(results').status # "FAIL"
            /\ Last(results').severity # "FAIL"
       /\ pc' = pc => results' = results
       /\ pc' # pc =>
            /\ Len(results') = Len(results) + 1
            /\ IsPrefix(results, results')
            /\ "test_rate_limiting" \notin raised' =>
                 /\ sent'["test_rate_limiting"] = 50
                 /\ Len(responses) = 50
                 /\ Last(results').status =
                      IF \E k \in 1..50 : responses[k] = 429
                      THEN "PASS" ELSE "WARN"]_vars

\* fifty requests were answered by a target that does not limit, but for one
\* 429, and the record is PASS
C8_Witness ==
  /\ profile = "open"
  /\ sent["test_rate_limiting"] = 50
  /\ \E k \in 1..Len(results) :
       results[k].test = "Rate Limiting" /\ results[k].status = "PASS"

\* the redirect the SSL check passes: one of 301, 302, 307, 308 to https://
C9_HttpsRedirect(o) ==
  /\ o.kind = "response"
  /\ o.status_code \in {301, 302, 307, 308}
  /\ "Location" \in DOMAIN o.headers
  /\ StartsWith(o.headers["Location"], <<"h", "t", "t", "p", "s", ":", "/", "/">>)

\* the SSL check with a base URL that is not https: one WARN record, no
\* request; with one that is: one request to the http:// equivalent, without
\* following redirects
C9_Requests ==
  /\ Len(results') = Len(results) + 1
  /\ IsPrefix(results, results')
  /\ IF base_url = <<"h", "t", "t", "p", ":", "/", "/", "l", "o", "c", "a", "l", "h", "o", "s", "t", ":", "8", "0", "8", "0">>
     THEN /\ Last(results').status = "WARN"
          /\ sent' = sent
     ELSE /\ base_url = <<"h", "t", "t", "p", "s", ":", "/", "/", "e", "a", "g", "l", "e", ".", "e", "x", "a", "m", "p", "l", "e">>
          /\ sent' = [sent EXCEPT !["test_ssl_configuration"] = 1]
          /\ last_request'.method = "GET"
          /\ last_request'.url = << <<"h", "t", "t", "p", ":", "/", "/", "e", "a", "g", "l", "e", ".", "e", "x", "a", "m", "p", "l", "e">>, "" >>
          /\ last_request'.allow_redirects = FALSE

C9_IsHttps == base_url[5] = "s"

\* C9, as claimed: ... PASS when the status is 301/302/307/308 and Location
\* starts with https://, FAIL for any other outcome of the request.
C9_SslAsClaimed ==
  [][pc = "test_ssl_configuration" =>
       /\ C9_Requests
       /\ C9_IsHttps =>
            Last(results').status =
              IF C9_HttpsRedirect(last_outcome') THEN "PASS" ELSE "FAIL"]_vars

\* C9, amended: ... PASS when the status is 301/302/307/308 and Location
\* starts with https://, FAIL for any other response, and an ERROR record of
\* severity WARN when the request raises.
C9_SslAmended ==
  [][pc = "test_ssl_configuration" =>
       /\ C9_Requests
       /\ C9_IsHttps =>
            /\ Last(results').status =
                 IF last_outcome'.kind = "exception" THEN "ERROR"
                 ELSE IF C9_HttpsRedirect(last_outcome') THEN "PASS"
                 ELSE "FAIL"
            /\ last_outcome'.kind = "exception" =>
                 Last(results').severity = "WARN"]_vars

\* the request of the SSL check raised and the run went on to the report
C9_Witness ==
  /\ pc = "generate_report"
  /\ last_request.allow_redirects = FALSE
  /\ last_outcome.kind = "exception"
  /\ Last(results).test = "SSL Configuration Test"
  /\ Last(results).status = "ERROR"

C10_Paths ==
  << "/actuator/env", "/actuator/configprops", "/actuator/beans",
     "/actuator/heapdump", "/actuator/threaddump", "/admin/users",
     "/admin/config" >>

\* C10: in the authorization check each of the seven sensitive paths is
\* requested in turn; a response with status 401, 403 or 404 gives a PASS
\* record for that path and a response with a 2xx status a FAIL record.
C10_Authorization ==
  [][pc = "test_authorization" =>
       LET o == last_outcome'
           r == Last(results')
       IN  /\ step \in 1..7
           /\ last_request'.url[2] = C10_Paths[step]
           /\ Len(results') = Len(results) + 1
           /\ IsPrefix(results, results')
           /\ r.test = "Sensitive Endpoint " \o C10_Paths[step]
           /\ o.kind = "response" =>
                /\ o.status_code \in {401, 403, 404} => r.status = "PASS"
                /\ o.status_code \in 200..299 => r.status = "FAIL"]_vars

\* the last sensitive path answered 204 No Content and its record is FAIL
C10_Witness ==
  /\ pc = "test_injection_attacks"
  /\ step = 1
  /\ last_outcome.kind = "response"
  /\ last_outcome.status_code = 204
  /\ Last(results).test = "Sensitive Endpoint /admin/config"
  /\ Last(results).status = "FAIL"

\* C11: a record has status FAIL exactly when it has severity FAIL, so the
\* result of the driver taken over the FAIL-severity records is the one
\* generate_report computes over the FAIL-status records; a record made from
\* a caught exception, status ERROR and severity WARN, does not make the run
\* fail.
C11_StatusFailIffSeverityFail ==
  /\ \A k \in 1..Len(results) :
       /\ results[k].status = "FAIL" <=> results[k].severity = "FAIL"
       /\ results[k].status = "ERROR" => results[k].severity = "WARN"
  /\ success # <<>> =>
       (success[1] <=> \A k \in 1..Len(results) : results[k].severity # "FAIL")
  /\ exit_code # <<>> =>
       (exit_code[1] = 1 <=> \E k \in 1..Len(results) : results[k].severity = "FAIL")

\* run_all_tests has returned true although requests raised and left their
\* ERROR records of severity WARN
C11_Witness ==
  /\ pc = "exit"
  /\ success = <<TRUE>>
  /\ raised # {}
  /\ \E k \in 1..Len(results) :
       results[k].status = "ERROR" /\ results[k].severity = "WARN"

====
